---- MODULE Spec2Model ----
(***************************************************************************)
(* Model of evaluation_script/main.py: the scorer of a prediction file     *)
(* against a ground truth file (tab separated matrices, header row of      *)
(* query ids, column 0 the document id).                                   *)
(*                                                                         *)
(* A file is the sequence of its lines, each line the sequence of its tab  *)
(* separated fields (line.strip("\n").split("\t")).  Python's arr[i] is    *)
(* field i+1 of a line.  A path is a record [ext, lines].  Ratios are      *)
(* exact fractions <<numerator, denominator>> in lowest terms; the code's  *)
(* floating point rounding is not modelled.  Dictionaries are functions;   *)
(* the insertion order of the truth dictionary, which the final sweep      *)
(* iterates, is kept beside it.                                            *)
(***************************************************************************)
EXTENDS Integers, Sequences, FiniteSets, TLC

VARIABLES
  pc,                          \* position of control inside evaluate
  calls,                       \* number of evaluate calls made by the process
  test_annotation_file,        \* argument of evaluate
  user_submission_file,        \* argument of evaluate
  phase_codename,              \* argument of evaluate
  query_level_base_metrics,    \* module global: query id -> BaseMetrics
  query_level_metrics,         \* module global: query id -> Metrics
  documents_with_ground_truth, \* module global: set of document ids
  truth,                       \* results / truth: (query id, doc id) -> label
  truth_order,                 \* insertion order of the keys of truth
  index,                       \* column index of the file being read
  cursor,                      \* <<line, i>>: the cell about to be read
  predicted_keys,              \* local of calculate_base_metrics
  global_base_metrics,         \* local of calculate_base_metrics
  sweep,                       \* position of the final sweep in truth.keys()
  locals,                      \* evaluate's metric locals
  total_queries,               \* local of calculate_query_level_metrics
  output,                      \* <<>> or <<the report returned>>
  raised                       \* name of the exception that left evaluate

vars == <<pc, calls, test_annotation_file, user_submission_file, phase_codename,
          query_level_base_metrics, query_level_metrics,
          documents_with_ground_truth, truth, truth_order, index, cursor,
          predicted_keys, global_base_metrics, sweep, locals, total_queries,
          output, raised>>

----------------------------------------------------------------------------
(* Values *)

NoError == "none"
Unbound == <<>>
ZeroR == <<0, 1>>
OneR == <<1, 1>>
EmptyDict == [k \in {} |-> 0]
NoCursor == <<0, 0>>

(* the outcome of a division whose divisor is 0: ZeroDivisionError *)
DivZero == <<0, 0>>

Put(d, k, v) == [x \in (DOMAIN d) \cup {k} |-> IF x = k THEN v ELSE d[x]]

RECURSIVE GCD(_, _)
GCD(a, b) == IF b = 0 THEN a ELSE GCD(b, a % b)

Frac(n, d) == LET g == GCD(n, d) IN <<n \div g, d \div g>>

AddR(a, b) == Frac(a[1] * b[2] + b[1] * a[2], a[2] * b[2])

----------------------------------------------------------------------------
(* utils.BaseMetrics and utils.Metrics: counters, and ratios that divide   *)
(* without a test of the divisor, so that a denominator of 0 raises        *)
(* ZeroDivisionError (DivZero).                                            *)

BaseMetrics == [tp |-> 0, fp |-> 0, tn |-> 0, fn |-> 0]

Metrics == [precision |-> ZeroR, recall |-> ZeroR, fpr |-> ZeroR,
            accuracy |-> ZeroR, f1 |-> ZeroR]

Add(b, counter) == [b EXCEPT ![counter] = @ + 1]

Ratio(n, d) == IF d = 0 THEN DivZero ELSE Frac(n, d)

calculate_precision(b) == Ratio(b.tp, b.tp + b.fp)

calculate_recall(b) == Ratio(b.tp, b.tp + b.fn)

calculate_fpr(b) == Ratio(b.fp, b.fp + b.tn)

calculate_accuracy(b) == Ratio(b.tp + b.tn, b.tp + b.tn + b.fp + b.fn)

(* 2 * precision * recall / (precision + recall) *)
calculate_f1(b) ==
  LET p == calculate_precision(b)
      r == calculate_recall(b)
  IN  IF p = DivZero \/ r = DivZero THEN DivZero
      ELSE Ratio(2 * p[1] * r[1], p[1] * r[2] + r[1] * p[2])

(* utils.open_file and utils.get_file_extension *)
open_file(path) == path.lines

get_file_extension(path) == path.ext

----------------------------------------------------------------------------
(* Mutant of populate_index_map: takes the query id to be the column's     *)
(* position, as the files commonly but not necessarily have it.            *)
PositionalIndex(infile) ==
  LET f == open_file(infile)
  IN  IF f = <<>> THEN EmptyDict
      ELSE [i \in 1..(Len(f[1]) - 1) |-> IF i = 1 THEN "Q1" ELSE "Q2"]

(* populate_index_map: column position -> query id, from the header line *)

populate_index_map(infile) ==
  LET f == open_file(infile)
  IN  IF f = <<>> THEN EmptyDict
      ELSE [i \in 1..(Len(f[1]) - 1) |-> f[1][i + 1]]

(* The first cell at or after <<line, i>> in the lines numbered in rows;   *)
(* <<Len(f) + 1, 1>> when the file is exhausted.  A line with no cell, or  *)
(* one not in rows, changes nothing and is passed over.                    *)
RECURSIVE Seek(_, _, _, _)
Seek(f, rows, line, i) ==
  IF line > Len(f) THEN <<Len(f) + 1, 1>>
  ELSE IF line \in rows /\ i < Len(f[line]) THEN <<line, i>>
  ELSE Seek(f, rows, line + 1, 1)

AtEnd(f, c) == c[1] > Len(f)

TruthRows(f) == 2..Len(f)

(* lines 116-117: only lines of a judged document are scanned *)
PredRows(f, docs) == {l \in 2..Len(f) : f[l][1] \in docs}

----------------------------------------------------------------------------
(* populate_ground_truth, one cell (lines 179-189).  s is the loader's     *)
(* state: results, their insertion order, and the three module globals.    *)

(* Mutant of LoadCell: allocates the accumulators of a query before       *)
(* testing whether the cell is judged.                                     *)
LoadCellEveryColumn(s, idx, arr, i) ==
  IF i \notin DOMAIN idx
  THEN (IF arr[i + 1] = "0" THEN s
        ELSE [s EXCEPT !.docs = @ \cup {arr[1]}, !.err = "KeyError"])
  ELSE LET query_id == idx[i]
           key == <<query_id, arr[1]>>
           judged == arr[i + 1] # "0"
       IN  [results |-> IF judged THEN Put(s.results, key, arr[i + 1])
                        ELSE s.results,
            order |-> IF judged /\ key \notin DOMAIN s.results
                      THEN Append(s.order, key) ELSE s.order,
            docs |-> IF judged THEN s.docs \cup {arr[1]} ELSE s.docs,
            qlbm |-> IF query_id \in DOMAIN s.qlbm THEN s.qlbm
                     ELSE Put(s.qlbm, query_id, BaseMetrics),
            qlm |-> IF query_id \in DOMAIN s.qlbm THEN s.qlm
                    ELSE Put(s.qlm, query_id, Metrics),
            err |-> NoError]

LoadCell(s, idx, arr, i) ==
  IF arr[i + 1] = "0" THEN s
  ELSE IF i \notin DOMAIN idx
       THEN [s EXCEPT !.docs = @ \cup {arr[1]}, !.err = "KeyError"]
  ELSE LET query_id == idx[i]
           key == <<query_id, arr[1]>>
       IN  [results |-> Put(s.results, key, arr[i + 1]),
            order |-> IF key \in DOMAIN s.results THEN s.order
                      ELSE Append(s.order, key),
            docs |-> s.docs \cup {arr[1]},
            qlbm |-> IF query_id \in DOMAIN s.qlbm THEN s.qlbm
                     ELSE Put(s.qlbm, query_id, BaseMetrics),
            qlm |-> IF query_id \in DOMAIN s.qlbm THEN s.qlm
                    ELSE Put(s.qlm, query_id, Metrics),
            err |-> NoError]

----------------------------------------------------------------------------
(* calculate_base_metrics *)

(* Mutant of Classify: compares the cell and the label as numbers, so      *)
(* that "1.0" equals "1".                                                  *)
ClassifyCoerced(label, cell) ==
  LET n == IF cell = "1.0" THEN "1" ELSE cell
  IN  IF label = n
      THEN (IF n = "1" THEN "tp" ELSE "tn")
      ELSE (IF label = "1" THEN "fn" ELSE "fp")

(* lines 126-139: which counter a first prediction of a judged pair adds to *)
Classify(label, cell) ==
  IF label = cell
  THEN (IF cell = "1" THEN "tp" ELSE "tn")
  ELSE (IF label = "1" THEN "fn" ELSE "fp")

(* Mutant of Impute: the two penalties exchanged *)
ImputeSwapped(label) == IF label = "1" THEN "fp" ELSE "fn"

(* lines 145-152: which counter a judged pair never predicted adds to *)
Impute(label) == IF label = "1" THEN "fn" ELSE "fp"

(* Mutant of Count: the per query accumulator is forgotten *)
CountGlobalOnly(s, query_id, counter) == [s EXCEPT !.g = Add(@, counter)]

(* lines 128-139, 147-152: one count, global and per query *)
Count(s, query_id, counter) ==
  [s EXCEPT !.g = Add(@, counter), !.qlbm[query_id] = Add(@, counter)]

(* Mutant of Fresh: predicted_keys is not consulted *)
FreshEveryTime(s, t, key) == key \in DOMAIN t

(* lines 123-125: a judged pair not yet scored *)
Fresh(s, t, key) == key \in DOMAIN t /\ key \notin s.seen

(* lines 119-139, one cell.  s is the scorer's state: the global           *)
(* accumulator, the per query accumulators, predicted_keys.                *)
ScoreCell(s, t, idx, arr, i) ==
  IF i \notin DOMAIN idx THEN [s EXCEPT !.err = "KeyError"]
  ELSE LET query_id == idx[i]
           key == <<query_id, arr[1]>>
       IN  IF Fresh(s, t, key)
           THEN Count([s EXCEPT !.seen = @ \cup {key}], query_id,
                      Classify(t[key], arr[i + 1]))
           ELSE s

(* Mutant of SweepKey: every key is penalised, predicted or not *)
SweepKeyAll(s, t, key) == Count(s, key[1], Impute(t[key]))

(* lines 143-152, one key of truth *)
SweepKey(s, t, key) ==
  IF key \notin s.seen THEN Count(s, key[1], Impute(t[key])) ELSE s

----------------------------------------------------------------------------
(* calculate_query_level_metrics (lines 39-67) *)

(* lines 48-52 and 256-260: the order in which the five ratios are taken *)
MetricNames == <<"precision", "recall", "fpr", "accuracy", "f1">>

Calculate(b, name) ==
  CASE name = "precision" -> calculate_precision(b)
    [] name = "recall" -> calculate_recall(b)
    [] name = "fpr" -> calculate_fpr(b)
    [] name = "accuracy" -> calculate_accuracy(b)
    [] name = "f1" -> calculate_f1(b)

(* lines 48-52 and 256-260: the ratios of b from the k-th on are assigned  *)
(* in turn to the fields of r; the first division by zero raises and       *)
(* leaves the later fields as they were.                                   *)
RECURSIVE AssignMetrics(_, _, _)
AssignMetrics(r, b, k) ==
  IF k > Len(MetricNames) THEN [rec |-> r, err |-> NoError]
  ELSE LET v == Calculate(b, MetricNames[k])
       IN  IF v = DivZero THEN [rec |-> r, err |-> "ZeroDivisionError"]
           ELSE AssignMetrics([r EXCEPT ![MetricNames[k]] = v], b, k + 1)

(* lines 187-189: the keys of query_level_base_metrics in insertion order, *)
(* each query id entering with its first key of results                    *)
RECURSIVE QueryOrderFrom(_, _, _)
QueryOrderFrom(order, k, qs) ==
  IF k > Len(order) THEN qs
  ELSE QueryOrderFrom(order, k + 1,
                      IF \E i \in 1..Len(qs) : qs[i] = order[k][1] THEN qs
                      ELSE Append(qs, order[k][1]))

QueryOrder(order) == QueryOrderFrom(order, 1, <<>>)

(* lines 46-52: the first loop, from the k-th query on *)
RECURSIVE QueryMetricsFrom(_, _, _, _)
QueryMetricsFrom(qlm, qlbm, qorder, k) ==
  IF k > Len(qorder) THEN [qlm |-> qlm, err |-> NoError]
  ELSE LET q == qorder[k]
           a == AssignMetrics(qlm[q], qlbm[q], 1)
           m == [qlm EXCEPT ![q] = a.rec]
       IN  IF a.err # NoError THEN [qlm |-> m, err |-> a.err]
           ELSE QueryMetricsFrom(m, qlbm, qorder, k + 1)

RECURSIVE SumR(_, _, _)
SumR(qlm, qs, field) ==
  IF qs = {} THEN ZeroR
  ELSE LET q == CHOOSE x \in qs : TRUE
       IN  AddR(qlm[q][field], SumR(qlm, qs \ {q}, field))

(* lines 54-65: the mean over the judged queries *)
Mean(qlm, field, n) ==
  LET s == SumR(qlm, DOMAIN qlm, field) IN Frac(s[1], s[2] * n)

(* lines 44, 54-67: total_queries and the means, p being what the first   *)
(* loop left                                                               *)
Averages(p, n) ==
  IF p.err # NoError
  THEN [qlm |-> p.qlm, total |-> n, err |-> p.err, qa |-> Metrics]
  ELSE IF n = 0
  THEN [qlm |-> p.qlm, total |-> n, err |-> "ZeroDivisionError", qa |-> Metrics]
  ELSE [qlm |-> p.qlm, total |-> n, err |-> NoError,
        qa |-> [precision |-> Mean(p.qlm, "precision", n),
                recall |-> Mean(p.qlm, "recall", n),
                fpr |-> Mean(p.qlm, "fpr", n),
                accuracy |-> Mean(p.qlm, "accuracy", n),
                f1 |-> Mean(p.qlm, "f1", n)]]

calculate_query_level_metrics(qlbm, qlm, qorder) ==
  Averages(QueryMetricsFrom(qlm, qlbm, qorder, 1), Cardinality(DOMAIN qlbm))

----------------------------------------------------------------------------
(* evaluate *)

(* lines 235-242: accuracy and qa_accuracy are bound only by lines 259, 261 *)
InitLocals ==
  [precision |-> ZeroR, recall |-> ZeroR, fpr |-> ZeroR, f1 |-> ZeroR,
   qa_precision |-> ZeroR, qa_recall |-> ZeroR, qa_fpr |-> ZeroR,
   qa_f1 |-> ZeroR, accuracy |-> Unbound, qa_accuracy |-> Unbound]

(* Mutant of ClearGlobals: the globals are kept from the call before *)
KeepGlobals(g) == g

(* lines 231-233 *)
ClearGlobals(g) == [qlbm |-> EmptyDict, qlm |-> EmptyDict, docs |-> {}]

(* line 244 *)
PhaseOK(phase) == phase \in {"unsupervised", "supervised", "final"}

(* line 252 *)
AnyJudged(qlbm) == Cardinality(DOMAIN qlbm) > 0

(* line 254 *)
ExtensionOK(extension) == extension \in {"tsv", "gz"}

(* line 261: the tuple returned is unpacked into the locals *)
ScoredLocals(l, qa) ==
  [l EXCEPT !.qa_precision = qa.precision, !.qa_recall = qa.recall,
            !.qa_fpr = qa.fpr, !.qa_accuracy = qa.accuracy,
            !.qa_f1 = qa.f1]

(* line 261: the call of calculate_query_level_metrics, whose result m is  *)
(* unpacked into the locals l unless it raised                             *)
Unpack(l, m) ==
  [locals |-> IF m.err # NoError THEN l ELSE ScoredLocals(l, m.qa),
   qlm |-> m.qlm, total |-> m.total, err |-> m.err]

(* lines 256-261: the global ratios, then calculate_query_level_metrics;   *)
(* a division by zero among the global ratios raises before any per query  *)
(* metric is touched and before total_queries is bound.                    *)
ScoreMetrics(l, g, qlbm, qlm, qorder, total) ==
  LET a == AssignMetrics(l, g, 1)
  IN  IF a.err # NoError
      THEN [locals |-> a.rec, qlm |-> qlm, total |-> total, err |-> a.err]
      ELSE Unpack(a.rec, calculate_query_level_metrics(qlbm, qlm, qorder))

(* lines 264-281 *)
Report(l) ==
  [global_precision |-> l.precision, global_recall |-> l.recall,
   global_f1 |-> l.f1, global_tpr |-> l.recall, global_fpr |-> l.fpr,
   global_accuracy |-> l.accuracy, average_precision |-> l.qa_precision,
   average_recall |-> l.qa_recall, average_f1 |-> l.qa_f1,
   average_tpr |-> l.qa_recall, average_fpr |-> l.qa_fpr,
   average_accuracy |-> l.qa_accuracy]

(* lines 264-283: reading an unbound local raises UnboundLocalError *)
BuildOutputOf(l) ==
  IF l.accuracy = Unbound \/ l.qa_accuracy = Unbound
  THEN [pc |-> "raised", raised |-> "UnboundLocalError", output |-> <<>>]
  ELSE [pc |-> "done", raised |-> NoError, output |-> <<Report(l)>>]

----------------------------------------------------------------------------
(* The functions as wholes.  Each folds the cell steps above over a file,  *)
(* in file order, and stops at the first exception.                        *)

RECURSIVE LoadFrom(_, _, _, _)
LoadFrom(s, f, idx, c) ==
  IF AtEnd(f, c) \/ s.err # NoError THEN s
  ELSE LoadFrom(LoadCell(s, idx, f[c[1]], c[2]), f, idx,
                Seek(f, TruthRows(f), c[1], c[2] + 1))

(* lines 170-190; g holds the module globals as the call finds them *)
populate_ground_truth(infile, g) ==
  LET f == open_file(infile)
      s == [results |-> EmptyDict, order |-> <<>>, docs |-> g.docs,
            qlbm |-> g.qlbm, qlm |-> g.qlm, err |-> NoError]
  IN  IF f = <<>> THEN [s EXCEPT !.err = "StopIteration"]
      ELSE LoadFrom(s, f, populate_index_map(infile),
                    Seek(f, TruthRows(f), 2, 1))

RECURSIVE ScoreFrom(_, _, _, _, _, _)
ScoreFrom(s, t, f, idx, docs, c) ==
  IF AtEnd(f, c) \/ s.err # NoError THEN s
  ELSE ScoreFrom(ScoreCell(s, t, idx, f[c[1]], c[2]), t, f, idx, docs,
                 Seek(f, PredRows(f, docs), c[1], c[2] + 1))

RECURSIVE SweepFrom(_, _, _, _)
SweepFrom(s, t, order, k) ==
  IF k > Len(order) THEN s
  ELSE SweepFrom(SweepKey(s, t, order[k]), t, order, k + 1)

(* lines 102-154 *)
calculate_base_metrics(infile, t, order, docs, qlbm) ==
  LET f == open_file(infile)
      s == [g |-> BaseMetrics, qlbm |-> qlbm, seen |-> {}, err |-> NoError]
  IN  IF f = <<>> THEN [s EXCEPT !.err = "StopIteration"]
      ELSE LET p == ScoreFrom(s, t, f, populate_index_map(infile), docs,
                              Seek(f, PredRows(f, docs), 2, 1))
           IN  IF p.err # NoError THEN p ELSE SweepFrom(p, t, order, 1)

Raise(name) == [pc |-> "raised", raised |-> name, output |-> <<>>]

(* lines 230-283: what a call returns or raises, from the globals g it finds *)
evaluate(g, taf, usf, phase) ==
  LET c == ClearGlobals(g)
  IN  IF ~PhaseOK(phase) THEN BuildOutputOf(InitLocals)
      ELSE LET t == populate_ground_truth(taf, c)
           IN  IF t.err # NoError THEN Raise(t.err)
               ELSE IF ~(AnyJudged(t.qlbm) /\ ExtensionOK(get_file_extension(usf)))
                    THEN BuildOutputOf(InitLocals)
               ELSE LET b == calculate_base_metrics(usf, t.results, t.order,
                                                    t.docs, t.qlbm)
                        m == ScoreMetrics(InitLocals, b.g, b.qlbm, t.qlm,
                                          QueryOrder(t.order), 0)
                    IN  IF b.err # NoError THEN Raise(b.err)
                        ELSE IF m.err # NoError THEN Raise(m.err)
                        ELSE BuildOutputOf(m.locals)

----------------------------------------------------------------------------
(* The state machine: one evaluate call at a time, cell by cell *)

Globals ==
  [qlbm |-> query_level_base_metrics, qlm |-> query_level_metrics,
   docs |-> documents_with_ground_truth]

Loader ==
  [results |-> truth, order |-> truth_order,
   docs |-> documents_with_ground_truth, qlbm |-> query_level_base_metrics,
   qlm |-> query_level_metrics, err |-> NoError]

Scorer ==
  [g |-> global_base_metrics, qlbm |-> query_level_base_metrics,
   seen |-> predicted_keys, err |-> NoError]

Init ==
  /\ pc = "idle"
  /\ calls = 0
  /\ test_annotation_file = [ext |-> "tsv", lines |-> <<>>]
  /\ user_submission_file = [ext |-> "tsv", lines |-> <<>>]
  /\ phase_codename = ""
  /\ query_level_base_metrics = EmptyDict
  /\ query_level_metrics = EmptyDict
  /\ documents_with_ground_truth = {}
  /\ truth = EmptyDict
  /\ truth_order = <<>>
  /\ index = EmptyDict
  /\ cursor = NoCursor
  /\ predicted_keys = {}
  /\ global_base_metrics = BaseMetrics
  /\ sweep = 0
  /\ locals = InitLocals
  /\ total_queries = 0
  /\ output = <<>>
  /\ raised = NoError

(* lines 230-246 and 170-173: entry of evaluate up to the first truth cell *)
Evaluate(truthFiles, predFiles, phases, extensions, maxCalls) ==
  /\ pc \in {"idle", "done", "raised"}
  /\ calls < maxCalls
  /\ \E tf \in truthFiles, pf \in predFiles, ph \in phases, ex \in extensions :
       LET g == ClearGlobals(Globals)
           taf == [ext |-> "tsv", lines |-> tf]
       IN  /\ calls' = calls + 1
           /\ test_annotation_file' = taf
           /\ user_submission_file' = [ext |-> ex, lines |-> pf]
           /\ phase_codename' = ph
           /\ query_level_base_metrics' = g.qlbm
           /\ query_level_metrics' = g.qlm
           /\ documents_with_ground_truth' = g.docs
           /\ truth' = EmptyDict
           /\ truth_order' = <<>>
           /\ predicted_keys' = {}
           /\ global_base_metrics' = BaseMetrics
           /\ sweep' = 0
           /\ locals' = InitLocals
           /\ total_queries' = 0
           /\ output' = <<>>
           /\ IF ~PhaseOK(ph)
              THEN pc' = "output" /\ raised' = NoError
                   /\ index' = EmptyDict /\ cursor' = NoCursor
              ELSE IF tf = <<>>
              THEN pc' = "raised" /\ raised' = "StopIteration"
                   /\ index' = EmptyDict /\ cursor' = NoCursor
              ELSE pc' = "truth" /\ raised' = NoError
                   /\ index' = populate_index_map(taf)
                   /\ cursor' = Seek(tf, TruthRows(tf), 2, 1)

(* lines 174-189: one cell of the truth file *)
LoadTruthCell ==
  /\ pc = "truth"
  /\ ~AtEnd(open_file(test_annotation_file), cursor)
  /\ LET f == open_file(test_annotation_file)
         s == LoadCell(Loader, index, f[cursor[1]], cursor[2])
     IN  /\ truth' = s.results
         /\ truth_order' = s.order
         /\ documents_with_ground_truth' = s.docs
         /\ query_level_base_metrics' = s.qlbm
         /\ query_level_metrics' = s.qlm
         /\ IF s.err # NoError
            THEN pc' = "raised" /\ raised' = s.err /\ UNCHANGED cursor
            ELSE /\ UNCHANGED <<pc, raised>>
                 /\ cursor' = Seek(f, TruthRows(f), cursor[1], cursor[2] + 1)
  /\ UNCHANGED <<calls, test_annotation_file, user_submission_file,
                 phase_codename, index, predicted_keys, global_base_metrics,
                 sweep, locals, total_queries, output>>

(* lines 190, 246-255, 102-111: populate_ground_truth returns, the two     *)
(* gates, and the entry of calculate_base_metrics up to its first cell     *)
StartScoring ==
  /\ pc = "truth"
  /\ AtEnd(open_file(test_annotation_file), cursor)
  /\ LET f == open_file(user_submission_file)
     IN  IF ~(AnyJudged(query_level_base_metrics)
              /\ ExtensionOK(get_file_extension(user_submission_file)))
         THEN pc' = "output" /\ cursor' = NoCursor
              /\ UNCHANGED <<index, raised>>
         ELSE IF f = <<>>
         THEN pc' = "raised" /\ raised' = "StopIteration"
              /\ index' = populate_index_map(user_submission_file)
              /\ cursor' = NoCursor
         ELSE pc' = "pred" /\ UNCHANGED raised
              /\ index' = populate_index_map(user_submission_file)
              /\ cursor' = Seek(f, PredRows(f, documents_with_ground_truth), 2, 1)
  /\ global_base_metrics' = BaseMetrics
  /\ predicted_keys' = {}
  /\ UNCHANGED <<calls, test_annotation_file, user_submission_file,
                 phase_codename, query_level_base_metrics, query_level_metrics,
                 documents_with_ground_truth, truth, truth_order, sweep,
                 locals, total_queries, output>>

(* lines 118-139: one cell of the prediction file *)
ScorePredictionCell ==
  /\ pc = "pred"
  /\ ~AtEnd(open_file(user_submission_file), cursor)
  /\ LET f == open_file(user_submission_file)
         s == ScoreCell(Scorer, truth, index, f[cursor[1]], cursor[2])
     IN  /\ global_base_metrics' = s.g
         /\ query_level_base_metrics' = s.qlbm
         /\ predicted_keys' = s.seen
         /\ IF s.err # NoError
            THEN pc' = "raised" /\ raised' = s.err /\ UNCHANGED cursor
            ELSE /\ UNCHANGED <<pc, raised>>
                 /\ cursor' = Seek(f, PredRows(f, documents_with_ground_truth),
                                   cursor[1], cursor[2] + 1)
  /\ UNCHANGED <<calls, test_annotation_file, user_submission_file,
                 phase_codename, query_level_metrics,
                 documents_with_ground_truth, truth, truth_order, index, sweep,
                 locals, total_queries, output>>

(* line 112 exhausted: the prediction pass ends and the sweep begins *)
EndOfPredictions ==
  /\ pc = "pred"
  /\ AtEnd(open_file(user_submission_file), cursor)
  /\ pc' = "sweep"
  /\ sweep' = 1
  /\ cursor' = NoCursor
  /\ UNCHANGED <<calls, test_annotation_file, user_submission_file,
                 phase_codename, query_level_base_metrics, query_level_metrics,
                 documents_with_ground_truth, truth, truth_order, index,
                 predicted_keys, global_base_metrics, locals, total_queries,
                 output, raised>>

(* lines 143-152: one key of truth in the final sweep *)
ImputeMiss ==
  /\ pc = "sweep"
  /\ sweep <= Len(truth_order)
  /\ LET s == SweepKey(Scorer, truth, truth_order[sweep])
     IN  /\ global_base_metrics' = s.g
         /\ query_level_base_metrics' = s.qlbm
  /\ sweep' = sweep + 1
  /\ UNCHANGED <<pc, calls, test_annotation_file, user_submission_file,
                 phase_codename, query_level_metrics,
                 documents_with_ground_truth, truth, truth_order, index, cursor,
                 predicted_keys, locals, total_queries, output, raised>>

(* lines 154, 256-261: calculate_base_metrics returns; the global ratios   *)
(* and calculate_query_level_metrics                                       *)
ComputeMetrics ==
  /\ pc = "sweep"
  /\ sweep > Len(truth_order)
  /\ LET m == ScoreMetrics(locals, global_base_metrics,
                           query_level_base_metrics, query_level_metrics,
                           QueryOrder(truth_order), total_queries)
     IN  /\ query_level_metrics' = m.qlm
         /\ total_queries' = m.total
         /\ locals' = m.locals
         /\ IF m.err # NoError
            THEN pc' = "raised" /\ raised' = m.err
            ELSE pc' = "output" /\ UNCHANGED raised
  /\ UNCHANGED <<calls, test_annotation_file, user_submission_file,
                 phase_codename, query_level_base_metrics,
                 documents_with_ground_truth, truth, truth_order, index, cursor,
                 predicted_keys, global_base_metrics, sweep, output>>

(* lines 264-283: the report is built and returned *)
BuildOutput ==
  /\ pc = "output"
  /\ LET r == BuildOutputOf(locals)
     IN  pc' = r.pc /\ raised' = r.raised /\ output' = r.output
  /\ UNCHANGED <<calls, test_annotation_file, user_submission_file,
                 phase_codename, query_level_base_metrics, query_level_metrics,
                 documents_with_ground_truth, truth, truth_order, index, cursor,
                 predicted_keys, global_base_metrics, sweep, locals,
                 total_queries>>

----------------------------------------------------------------------------
(* Inputs *)

MaxTruthRows == 2
MaxPredRows == 2
MaxCalls == 2

SeqsUpTo(S, n) == UNION {[1..k -> S] : k \in 0..n}

(* the headed files with at most n lines drawn from lines *)
Files(headers, lines, n) ==
  {<<h>> \o b : h \in headers, b \in SeqsUpTo(lines, n)}

TruthHeaders == {<<"doc", "Q1", "Q2">>, <<"doc", "Q1", "Q1">>}

(* "1" judges positive, "2" negative, "0" leaves the pair unjudged *)
TruthLines ==
  {<<"D1", "1", "0">>, <<"D2", "0", "1">>, <<"D1", "2", "1">>, <<"D2", "2">>}

PredHeaders ==
  {<<"doc", "Q1", "Q2">>, <<"doc", "Q2", "Q1">>, <<"doc", "Q1", "Q1">>,
   <<"doc", "Q1">>}

(* any string may be predicted; the last line is shorter than the headers *)
PredLines ==
  {<<"D1", "1", "0">>, <<"D2", "0", "1">>, <<"D1", "1.0", "2">>,
   <<"D2", "-1">>}

TruthFiles == Files(TruthHeaders, TruthLines, MaxTruthRows)

PredFiles == Files(PredHeaders, PredLines, MaxPredRows)

(* a few whole files, among them an empty one and lines longer than the header *)
ExampleTruth == <<<<"doc", "Q1", "Q2">>, <<"D1", "1", "0">>, <<"D2", "0", "1">>>>

ExamplePred == ExampleTruth

ExamplePredWithoutD2 == <<<<"doc", "Q1", "Q2">>, <<"D1", "1", "0">>>>

(* each query judged once positive and once negative *)
MixedTruth == <<<<"doc", "Q1", "Q2">>, <<"D1", "1", "2">>, <<"D2", "2", "1">>>>

FewTruthFiles ==
  {<<>>, ExampleTruth, MixedTruth,
   <<<<"doc", "Q1", "Q2">>, <<"D1", "0", "0">>>>,
   <<<<"doc", "Q2">>, <<"D1", "2">>, <<"D2", "0", "1">>>>}

FewPredFiles ==
  {<<>>, ExamplePred, ExamplePredWithoutD2, MixedTruth,
   <<<<"doc", "Q2">>, <<"D1", "2", "1">>>>}

----------------------------------------------------------------------------
(* Specifications *)

(* one call on any pair of generated files *)
Next ==
  \/ Evaluate(TruthFiles, PredFiles, {"final"}, {"tsv"}, 1)
  \/ LoadTruthCell
  \/ StartScoring
  \/ ScorePredictionCell
  \/ EndOfPredictions
  \/ ImputeMiss
  \/ ComputeMetrics
  \/ BuildOutput

Spec == Init /\ [][Next]_vars

(* successive calls in one process, any phase and extension *)
NextCalls ==
  \/ Evaluate(FewTruthFiles, FewPredFiles,
              {"unsupervised", "supervised", "final", "dev"},
              {"tsv", "gz", "txt"}, MaxCalls)
  \/ LoadTruthCell
  \/ StartScoring
  \/ ScorePredictionCell
  \/ EndOfPredictions
  \/ ImputeMiss
  \/ ComputeMetrics
  \/ BuildOutput

SpecCalls == Init /\ [][NextCalls]_vars

----------------------------------------------------------------------------
(* Vocabulary of the properties *)

Counters == {"tp", "fp", "tn", "fn"}

Total(b) == b.tp + b.fp + b.tn + b.fn

TruthFile == open_file(test_annotation_file)

PredFile == open_file(user_submission_file)

JudgedQueries == {k[1] : k \in DOMAIN truth}

JudgedPairsOf(q) == {k \in DOMAIN truth : k[1] = q}

(* populate_ground_truth has returned in the current call *)
TruthLoaded ==
  \/ pc = "truth" /\ AtEnd(TruthFile, cursor)
  \/ pc \in {"pred", "sweep"}
  \/ pc \in {"output", "done"} /\ PhaseOK(phase_codename)
  \/ pc = "raised" /\ raised \in {"UnboundLocalError", "ZeroDivisionError"}
                   /\ PhaseOK(phase_codename)

(* calculate_base_metrics has returned in the current call *)
ScoringFinished ==
  \/ pc = "sweep" /\ sweep > Len(truth_order)
  \/ pc \in {"output", "done"} /\ locals.accuracy # Unbound
  \/ pc = "raised" /\ raised = "ZeroDivisionError"

(* the cells of the prediction file that predict the pair key, as <<line, i>> *)
Occurrences(key) ==
  {c \in (2..Len(PredFile)) \X (DOMAIN index) :
     /\ c[2] < Len(PredFile[c[1]])
     /\ PredFile[c[1]][1] = key[2]
     /\ index[c[2]] = key[1]}

Before(c, d) == c[1] < d[1] \/ (c[1] = d[1] /\ c[2] < d[2])

CellAt(c) == PredFile[c[1]][c[2] + 1]

FirstCell(key) ==
  CellAt(CHOOSE c \in Occurrences(key) :
           \A d \in Occurrences(key) : d = c \/ Before(c, d))

(* the step about to be taken reads a cell of the prediction file *)
AtPredictionCell ==
  pc = "pred" /\ ~AtEnd(PredFile, cursor) /\ cursor[2] \in DOMAIN index

CurKey == <<index[cursor[2]], PredFile[cursor[1]][1]>>

CurCell == PredFile[cursor[1]][cursor[2] + 1]

Bump(b, c) == [b EXCEPT ![c] = b[c] + 1]

(* the counter that string equality of cell and label selects *)
C6_Counter(label, cell) ==
  CASE cell = label /\ label = "1" -> "tp"
    [] cell = label /\ label # "1" -> "tn"
    [] cell # label /\ label = "1" -> "fn"
    [] cell # label /\ label # "1" -> "fp"

(* some ratio of the accumulator b has the divisor 0: tp + fp, tp + fn,    *)
(* fp + tn, or precision + recall, which is 0 exactly when tp is           *)
ZeroDenominator(b) ==
  b.tp + b.fp = 0 \/ b.tp + b.fn = 0 \/ b.fp + b.tn = 0 \/ b.tp = 0

RECURSIVE SumCounter(_, _, _)
SumCounter(qlbm, qs, c) ==
  IF qs = {} THEN 0
  ELSE LET q == CHOOSE x \in qs : TRUE
       IN  qlbm[q][c] + SumCounter(qlbm, qs \ {q}, c)

----------------------------------------------------------------------------
(* C1: once calculate_base_metrics has finished, the four counters of      *)
(* every per query accumulator add up to the number of judged pairs of     *)
(* that query: each judged pair is counted exactly once, predicted once,   *)
(* several times or not at all.                                            *)
C1_EveryJudgedPairCountedOnce ==
  ScoringFinished =>
    \A q \in DOMAIN query_level_base_metrics :
      Total(query_level_base_metrics[q]) = Cardinality(JudgedPairsOf(q))

(* a finished run with a pair predicted twice and a pair never predicted *)
C1_Witness ==
  /\ ScoringFinished
  /\ \E k \in predicted_keys : Cardinality(Occurrences(k)) > 1
  /\ \E k \in DOMAIN truth : Occurrences(k) = {}
  /\ \E k \in predicted_keys : Cardinality(Occurrences(k)) = 1

(* one step of the final sweep, the keys it visits, and the worked example *)
C4_SweepStep ==
  (pc = "sweep" /\ sweep <= Len(truth_order)) =>
    LET key == truth_order[sweep]
        c == IF truth[key] = "1" THEN "fn" ELSE "fp"
    IN  IF key \in predicted_keys
        THEN UNCHANGED <<global_base_metrics, query_level_base_metrics>>
        ELSE /\ global_base_metrics' = Bump(global_base_metrics, c)
             /\ query_level_base_metrics' =
                  [query_level_base_metrics EXCEPT
                     ![key[1]] = Bump(query_level_base_metrics[key[1]], c)]

C4_SweepCoversTruth ==
  pc = "sweep" =>
    /\ Len(truth_order) = Cardinality(DOMAIN truth)
    /\ {truth_order[k] : k \in 1..Len(truth_order)} = DOMAIN truth

C4_Example ==
  (ScoringFinished /\ TruthFile = ExampleTruth
     /\ PredFile = ExamplePredWithoutD2) =>
    query_level_base_metrics["Q2"] = [tp |-> 0, fp |-> 0, tn |-> 0, fn |-> 1]

(* C4: in the final sweep every key of the Judgment Table that was never   *)
(* scored adds exactly one count, globally and to its query: fn when its   *)
(* label is "1", fp otherwise, never tp or tn; a scored key adds nothing;  *)
(* the sweep visits every key once.  With the truth file doc/Q1/Q2,        *)
(* D1/1/0, D2/0/1 and a prediction file without D2, Q2 ends with fn = 1    *)
(* and tp = fp = tn = 0.                                                   *)
C4_MissesAreImputed ==
  /\ [][C4_SweepStep]_vars
  /\ [](C4_SweepCoversTruth /\ C4_Example)

(* a finished sweep that imputed a false negative and a false positive,    *)
(* for a query absent from the header and for a document absent from the   *)
(* file                                                                    *)
C4_Witness ==
  /\ ScoringFinished
  /\ \E k1, k2 \in (DOMAIN truth) \ predicted_keys :
       /\ truth[k1] = "1" /\ truth[k2] # "1"
       /\ \A i \in DOMAIN index : index[i] # k1[1]
       /\ \A l \in 2..Len(PredFile) : PredFile[l][1] # k2[2]

(* a step that reads a cell whose pair is in predicted_keys *)
C5_Step ==
  (AtPredictionCell /\ CurKey \in predicted_keys) =>
    UNCHANGED <<global_base_metrics, query_level_base_metrics, predicted_keys>>

(* when the pass is over, the scored pairs are the judged pairs that occur *)
(* in the file, each counted as its first cell in file order classifies it *)
C5_FirstOccurrenceDecides ==
  (pc = "sweep" /\ sweep = 1) =>
    /\ predicted_keys = {k \in DOMAIN truth : Occurrences(k) # {}}
    /\ \A q \in DOMAIN query_level_base_metrics : \A c \in Counters :
         query_level_base_metrics[q][c] =
           Cardinality({k \in predicted_keys :
                          /\ k[1] = q
                          /\ C6_Counter(truth[k], FirstCell(k)) = c})

(* C5: a judged pair that occurs several times in the prediction file      *)
(* (duplicate rows, duplicate header ids) is scored once: its first cell   *)
(* in file order decides, and a later cell changes neither the global      *)
(* accumulator, nor any per query accumulator, nor the Seen-Predictions    *)
(* Set, whatever its value.                                                *)
C5_LaterOccurrencesIgnored ==
  [][C5_Step]_vars /\ [](C5_FirstOccurrenceDecides)

(* the pass is over and some scored pair occurred twice with two values *)
C5_Witness ==
  /\ pc = "sweep"
  /\ \E k \in predicted_keys :
       \E c, d \in Occurrences(k) : Before(c, d) /\ CellAt(c) # CellAt(d)

(* a step that reads the first cell of a judged pair *)
C6_Step ==
  (AtPredictionCell /\ CurKey \in DOMAIN truth /\ CurKey \notin predicted_keys) =>
    LET c == C6_Counter(truth[CurKey], CurCell)
    IN  /\ global_base_metrics' = Bump(global_base_metrics, c)
        /\ query_level_base_metrics' =
             [query_level_base_metrics EXCEPT
                ![CurKey[1]] = Bump(query_level_base_metrics[CurKey[1]], c)]
        /\ predicted_keys' = predicted_keys \cup {CurKey}
        /\ (truth[CurKey] = "1" /\ CurCell = "1.0") => c = "fn"
        /\ (truth[CurKey] = "2" /\ CurCell = "-1") => c = "fp"

(* C6: the first cell of a judged pair adds exactly one count, globally    *)
(* and to its query, chosen by string equality of cell and label: tp when  *)
(* equal and the label is "1", tn when equal otherwise, fn when different  *)
(* and the label is "1", fp when different otherwise.  "1.0" against "1"   *)
(* is fn and "-1" against "2" is fp.                                       *)
C6_FirstOccurrenceByStringEquality == [][C6_Step]_vars

(* the pass scored "1.0" against "1" and "-1" against "2" *)
C6_Witness ==
  /\ pc = "sweep"
  /\ \E k1, k2 \in predicted_keys :
       /\ truth[k1] = "1" /\ FirstCell(k1) = "1.0"
       /\ truth[k2] = "2" /\ FirstCell(k2) = "-1"
       /\ global_base_metrics = [tp |-> 0, fp |-> 1, tn |-> 0, fn |-> 1]

(* the global accumulator against the per query ones, before and after a step *)
C10_GlobalIsSum ==
  pc \in {"pred", "sweep"} =>
    \A c \in Counters :
      global_base_metrics[c] =
        SumCounter(query_level_base_metrics, DOMAIN query_level_base_metrics, c)

C10_NoDecrease ==
  (pc \in {"pred", "sweep"} /\ pc' \in {"pred", "sweep"}) =>
    \A c \in Counters :
      /\ global_base_metrics'[c] >= global_base_metrics[c]
      /\ \A q \in DOMAIN query_level_base_metrics :
           /\ q \in DOMAIN query_level_base_metrics'
           /\ query_level_base_metrics'[q][c] >= query_level_base_metrics[q][c]

(* C10: during calculate_base_metrics each counter of the global           *)
(* accumulator is the sum of that counter over the per query accumulators, *)
(* and no counter decreases.                                               *)
C10_GlobalTracksQueries == [](C10_GlobalIsSum) /\ [][C10_NoDecrease]_vars

(* the sweep is over, two queries hold counts, scored and imputed *)
C10_Witness ==
  /\ pc = "sweep" /\ sweep > Len(truth_order)
  /\ Cardinality({q \in DOMAIN query_level_base_metrics :
                    Total(query_level_base_metrics[q]) > 0}) > 1
  /\ predicted_keys # {}
  /\ (DOMAIN truth) \ predicted_keys # {}

----------------------------------------------------------------------------
(* the all-zero report, and the calls that skip scoring *)
ZeroReport ==
  [global_precision |-> ZeroR, global_recall |-> ZeroR, global_f1 |-> ZeroR,
   global_tpr |-> ZeroR, global_fpr |-> ZeroR, global_accuracy |-> ZeroR,
   average_precision |-> ZeroR, average_recall |-> ZeroR,
   average_f1 |-> ZeroR, average_tpr |-> ZeroR, average_fpr |-> ZeroR,
   average_accuracy |-> ZeroR]

SkipsScoring ==
  /\ calls > 0
  /\ \/ ~PhaseOK(phase_codename)
     \/ /\ TruthLoaded
        /\ \/ ~AnyJudged(query_level_base_metrics)
           \/ ~ExtensionOK(get_file_extension(user_submission_file))

(* C2: whenever evaluate skips scoring (unknown phase, no judged query,    *)
(* or an extension other than tsv and gz) it returns a report whose twelve *)
(* fields are 0 and raises nothing.                                        *)
C2_SkippedScoringReturnsZeroReport ==
  (SkipsScoring /\ pc \in {"done", "raised"}) =>
    (pc = "done" /\ raised = NoError /\ output = <<ZeroReport>>)

(* the ratios that must be 0, and the report of the worked example *)
C3_ZeroRatios(b, precision, recall, fpr, f1) ==
  /\ b.tp + b.fp = 0 => precision = ZeroR
  /\ b.tp + b.fn = 0 => recall = ZeroR
  /\ b.fp + b.tn = 0 => fpr = ZeroR
  /\ (precision = ZeroR /\ recall = ZeroR) => f1 = ZeroR

C3_ExampleReport ==
  [global_precision |-> OneR, global_recall |-> OneR, global_f1 |-> OneR,
   global_tpr |-> OneR, global_fpr |-> ZeroR, global_accuracy |-> OneR,
   average_precision |-> OneR, average_recall |-> OneR,
   average_f1 |-> OneR, average_tpr |-> OneR, average_fpr |-> ZeroR,
   average_accuracy |-> OneR]

(* C3: a ratio whose denominator is 0 is reported as 0, globally and per   *)
(* query, and a run that scores well-formed files returns a report: no     *)
(* division by zero leaves evaluate.  For the truth file doc/Q1/Q2,        *)
(* D1/1/0, D2/0/1 and the same file as prediction, global and average      *)
(* precision, recall, accuracy and f1 are 1 and global and average fpr     *)
(* are 0.  The divisions of the accumulators test no divisor and lines     *)
(* 256-260 and 48-52 catch nothing: the example raises ZeroDivisionError   *)
(* at its global fpr, 0 / (0 + 0).                                         *)
C3_ZeroDenominatorReportedAsZero ==
  /\ raised # "ZeroDivisionError"
  /\ (pc \in {"done", "raised"} /\ AnyJudged(query_level_base_metrics)
        /\ raised \notin {"KeyError", "StopIteration"}) =>
       (pc = "done" /\ output # <<>>)
  /\ (pc = "done" /\ ScoringFinished) =>
       /\ C3_ZeroRatios(global_base_metrics, output[1].global_precision,
                        output[1].global_recall, output[1].global_fpr,
                        output[1].global_f1)
       /\ \A q \in DOMAIN query_level_base_metrics :
            C3_ZeroRatios(query_level_base_metrics[q],
                          query_level_metrics[q].precision,
                          query_level_metrics[q].recall,
                          query_level_metrics[q].fpr,
                          query_level_metrics[q].f1)
  /\ (pc = "done" /\ TruthFile = ExampleTruth /\ PredFile = ExamplePred) =>
       output = <<C3_ExampleReport>>

(* the globals of a fresh process *)
FreshGlobals == [qlbm |-> EmptyDict, qlm |-> EmptyDict, docs |-> {}]

(* C7: nothing leaks from one evaluate call into the next: what a call     *)
(* returns or raises is what the same call returns or raises in a fresh    *)
(* process, and when populate_ground_truth has returned the three globals  *)
(* hold exactly what the call's own truth file gives, all counters 0.      *)
C7_NoStateLeaksBetweenCalls ==
  /\ pc \in {"done", "raised"} =>
       LET r == evaluate(FreshGlobals, test_annotation_file,
                         user_submission_file, phase_codename)
       IN  r.pc = pc /\ r.raised = raised /\ r.output = output
  /\ (pc = "truth" /\ AtEnd(TruthFile, cursor)) =>
       LET t == populate_ground_truth(test_annotation_file, FreshGlobals)
       IN  /\ truth = t.results
           /\ DOMAIN query_level_base_metrics = JudgedQueries
           /\ DOMAIN query_level_metrics = JudgedQueries
           /\ documents_with_ground_truth = {k[2] : k \in DOMAIN truth}
           /\ \A q \in JudgedQueries :
                /\ query_level_base_metrics[q] = BaseMetrics
                /\ query_level_metrics[q] = Metrics

(* a second call has returned a report *)
C7_Witness ==
  /\ calls = 2 /\ pc = "done" /\ output # <<>>
  /\ DOMAIN query_level_base_metrics = {"Q1", "Q2"}

(* the header ids of the truth file's columns with a judged cell *)
JudgedQueriesOfFile ==
  LET idx == populate_index_map(test_annotation_file)
  IN  {idx[c[2]] : c \in {c \in (2..Len(TruthFile)) \X (DOMAIN idx) :
                            /\ c[2] < Len(TruthFile[c[1]])
                            /\ TruthFile[c[1]][c[2] + 1] # "0"}}

(* C8: the keys of query_level_base_metrics and of query_level_metrics are *)
(* the query ids of the Judgment Table's keys, which are the header ids of *)
(* the truth file's columns with a cell other than "0"; and               *)
(* calculate_query_level_metrics runs only with at least one such query,   *)
(* its divisor total_queries being their number: a ZeroDivisionError that  *)
(* leaves evaluate comes from a ratio of an accumulator, never from the    *)
(* division by total_queries.                                              *)
C8_AccumulatorsOnlyForJudgedQueries ==
  /\ DOMAIN query_level_base_metrics = JudgedQueries
  /\ DOMAIN query_level_metrics = JudgedQueries
  /\ TruthLoaded => DOMAIN query_level_base_metrics = JudgedQueriesOfFile
  /\ pc \in {"pred", "sweep"} => Cardinality(JudgedQueries) >= 1
  /\ raised = "ZeroDivisionError" =>
       /\ Cardinality(JudgedQueries) >= 1
       /\ \/ ZeroDenominator(global_base_metrics)
          \/ \E q \in DOMAIN query_level_base_metrics :
               ZeroDenominator(query_level_base_metrics[q])
  /\ total_queries # 0 => total_queries = Cardinality(JudgedQueriesOfFile)
  /\ (pc \in {"output", "done"} /\ locals.accuracy # Unbound) =>
       /\ total_queries >= 1
       /\ total_queries = Cardinality(JudgedQueriesOfFile)

(* a scored run whose truth file has a column of "0" cells only *)
C8_Witness ==
  /\ pc = "done" /\ output # <<>>
  /\ total_queries = 1
  /\ \E i \in DOMAIN populate_index_map(test_annotation_file) :
       populate_index_map(test_annotation_file)[i] \notin
         DOMAIN query_level_base_metrics

----------------------------------------------------------------------------
(* permutations of the query columns of a file *)

Perms(n) == {p \in [1..n -> 1..n] : \A i, j \in 1..n : p[i] = p[j] => i = j}

(* every line has one field per header field: its columns can be permuted *)
Rectangular(f) == f # <<>> /\ \A l \in 1..Len(f) : Len(f[l]) = Len(f[1])

DistinctHeader(f) ==
  \A i, j \in 2..Len(f[1]) : f[1][i] = f[1][j] => i = j

(* the file with query column j taken from query column p[j], header and cells *)
PermuteColumns(path, p) ==
  [path EXCEPT !.lines =
     [l \in 1..Len(path.lines) |->
        [j \in 1..Len(path.lines[l]) |->
           IF j = 1 THEN path.lines[l][1] ELSE path.lines[l][p[j - 1] + 1]]]]

Zeroed(qlbm) == [q \in DOMAIN qlbm |-> BaseMetrics]

SameScores(r) ==
  /\ r.err = NoError
  /\ r.g = global_base_metrics
  /\ r.qlbm = query_level_base_metrics

(* permuting the query columns of the prediction file changes no accumulator *)
C9_PredictionColumnOrder ==
  (Rectangular(PredFile) /\ DistinctHeader(PredFile)) =>
    \A p \in Perms(Len(PredFile[1]) - 1) :
      SameScores(calculate_base_metrics(
                   PermuteColumns(user_submission_file, p), truth, truth_order,
                   documents_with_ground_truth,
                   Zeroed(query_level_base_metrics)))

(* permuting the query columns of the truth file changes no accumulator *)
C9_TruthColumnOrder ==
  \A p \in Perms(Len(TruthFile[1]) - 1) :
    LET t == populate_ground_truth(PermuteColumns(test_annotation_file, p),
                                   FreshGlobals)
    IN  SameScores(calculate_base_metrics(user_submission_file, t.results,
                                          t.order, t.docs, t.qlbm))

(* C9 as stated: cells are matched to judgments by query id, not by column *)
(* position: for every truth file, and every prediction file whose     *)
(* header ids are pairwise distinct, the accumulators depend neither on    *)
(* the column order of the prediction file nor on that of the truth file.  *)
C9_Original ==
  (pc = "sweep" /\ sweep > Len(truth_order)) =>
    /\ C9_PredictionColumnOrder
    /\ (Rectangular(PredFile) /\ DistinctHeader(PredFile)
          /\ Rectangular(TruthFile)) => C9_TruthColumnOrder

(* C9 amended: cells are matched by query id, not by column position as    *)
(* stated, the independence of the truth file's column order *)
(* being claimed only of truth files whose header ids are pairwise         *)
(* distinct too.                                                           *)
C9_MatchedByQueryIdNotPosition ==
  (pc = "sweep" /\ sweep > Len(truth_order)) =>
    /\ C9_PredictionColumnOrder
    /\ (Rectangular(PredFile) /\ DistinctHeader(PredFile)
          /\ Rectangular(TruthFile) /\ DistinctHeader(TruthFile)) =>
         C9_TruthColumnOrder

(* scoring has finished on two files that order the two queries            *)
(* differently, each query scored from the prediction file                 *)
C9_Witness ==
  /\ pc = "sweep" /\ sweep > Len(truth_order)
  /\ TruthFile[1] = <<"doc", "Q1", "Q2">>
  /\ PredFile[1] = <<"doc", "Q2", "Q1">>
  /\ Rectangular(PredFile) /\ Rectangular(TruthFile)
  /\ {k[1] : k \in predicted_keys} = {"Q1", "Q2"}
  /\ global_base_metrics.tp > 0

====
